---- MODULE Spec2Model ----
(***************************************************************************)
(* Model of package cc (mewspring/cc): ParseFile turns the visitor-driven  *)
(* cursor traversal of libclang into a tree of Nodes and folds the         *)
(* diagnostics into one aggregate error; Walk and PrintTree traverse the   *)
(* finished tree.  The repository holds two revisions of the package:      *)
(*   "cc"    src/cc.go            (fingerprint = kind + location string,   *)
(*                                 session never disposed by ParseFile)    *)
(*   "part0" src/unnamed/part_000 (fingerprint = engine hash, deferred     *)
(*                                 Dispose, cached Kind and Spelling)      *)
(* The variable variant says which revision a behaviour runs.              *)
(* The clang engine is the environment: it hands out cursors and calls the *)
(* visitor depth-first, descending only where the visitor said Recurse.    *)
(***************************************************************************)
EXTENDS Integers, Sequences, FiniteSets, TLC

\* ---------------------------------------------------------------- bounds
\* Callbacks the engine delivers in one build pass, at most.
MaxCursors == 3
\* Diagnostics the engine reports, at most.
MaxDiags == 2
\* PrintTree calls made on a returned tree, at most.
MaxPrints == 2

VARIABLES
    variant,      \* which revision runs: "cc" or "part0"
    pc,           \* position of ParseFile: "start", "visiting", "returned", "panicked"
    tuValid,      \* engine: could a translation unit be constructed
    diagnostics,  \* engine: tu.Diagnostics(), the spellings in report order
    stack,        \* engine: cursors whose children are being visited (root first)
    delivered,    \* engine: the callbacks made so far, [cursor, parent, answer]
    nodes,        \* heap of Node values; a *Node is an index into it
    root,         \* the *Node ParseFile holds as root (0 = nil)
    nodeFromHash, \* the resolver map of the running build pass
    err,          \* the error ParseFile returns
    panicMsg,     \* the value ParseFile panicked with ("" = none)
    disposed,     \* session resources released so far, in order
    outputs,      \* what each PrintTree call wrote, one entry per call
    visited,      \* the nodes f was invoked on by the last Walk, in order
    staleDeref    \* was a cursor handle of a disposed session used

vars == <<variant, pc, tuValid, diagnostics, stack, delivered, nodes, root,
          nodeFromHash, err, panicMsg, disposed, outputs, visited, staleDeref>>

\* ------------------------------------------------------------ the engine
\* What the engine knows of a cursor.  id is the cursor's identity inside the
\* engine (its traversal position); the Go code cannot see it.
Cur(id, kind, spelling, file, line, col, hash, null) ==
    [id |-> id, kind |-> kind, spelling |-> spelling, file |-> file,
     line |-> line, col |-> col, hash |-> hash, null |-> null]

\* tu.TranslationUnitCursor() of a translation unit that was constructed.
TUCursor == Cur(0, "TranslationUnit", "a.c", "", 0, 0, 1, FALSE)
\* The null cursor: what a failed translation unit gives, and what the engine
\* delivers for an absent optional child.
NullCursor(id) == Cur(id, "InvalidFile", "", "", 0, 0, 0, TRUE)
\* A cursor the engine never delivers to the visitor (a broken engine may
\* still report it as a parent).
OrphanCursor == Cur(-1, "ParmDecl", "argc", "a.c", 9, 9, 99, FALSE)

\* The cursors the engine may deliver as the id-th callback.  Two callbacks
\* may get cursors that differ in nothing but their identity: a declaration
\* in a header included twice, or nested implicit conversions, have the same
\* kind and the same presumed location.
CursorPool(id) ==
    { Cur(id, "FunctionDecl", "main", "a.c", 1, 5, 11, FALSE),
      Cur(id, "UnexposedExpr", "x", "a.c", 1, 12, 12, FALSE),
      NullCursor(id) }

DiagMessages == {"expected ';'", "unterminated string"}

RECURSIVE SeqsUpTo(_, _)
SeqsUpTo(S, n) ==
    IF n = 0 THEN {<<>>}
    ELSE LET shorter == SeqsUpTo(S, n - 1)
         IN  shorter \cup {Append(s, x) : s \in {t \in shorter : Len(t) = n - 1}, x \in S}

\* ------------------------------------------------------- pure functions
Digits == <<"0", "1", "2", "3", "4", "5", "6", "7", "8", "9">>

\* %d of fmt.Sprintf for an unsigned value.
RECURSIVE FormatUint(_)
FormatUint(n) ==
    IF n < 10 THEN Digits[n + 1]
    ELSE FormatUint(n \div 10) \o Digits[(n % 10) + 1]

\* The Location cached from loc.PresumedLocation().
NewLocation(c) == [File |-> c.file, Line |-> c.line, Col |-> c.col]

ZeroLocation == [File |-> "", Line |-> 0, Col |-> 0]

\* Location.String
LocationString(loc) ==
    loc.File \o ":" \o FormatUint(loc.Line) \o ":" \o FormatUint(loc.Col)

\* hashFromCursor of cc.go
hashFromCursor(c) == c.kind \o "_" \o LocationString(NewLocation(c))

\* The key a cursor is registered and looked up under.
Fingerprint(v, c) == IF v = "cc" THEN hashFromCursor(c) ELSE c.hash

NoError == [nil |-> TRUE, Errors |-> <<>>]

\* Mutant: the new error replaces the aggregate instead of joining it.
MultierrorAppendReplace(e, msg) == [nil |-> FALSE, Errors |-> <<msg>>]

\* multierror.Append(err, errors.New(msg))
MultierrorAppend(e, msg) == [nil |-> FALSE, Errors |-> Append(e.Errors, msg)]

\* The loop over tu.Diagnostics().
RECURSIVE RecordErrors(_, _)
RecordErrors(e, ds) ==
    IF ds = <<>> THEN e
    ELSE RecordErrors(MultierrorAppend(e, Head(ds)), Tail(ds))

\* The root Node literal.
RootNode(v, c) ==
    IF v = "cc"
    THEN [Body |-> c, Loc |-> NewLocation(c), Children |-> <<>>]
    ELSE [Body |-> c, Spelling |-> "", Kind |-> "", Loc |-> ZeroLocation,
          Children |-> <<>>]

\* The Node literal of the visit closure.
ChildNode(v, c) ==
    IF v = "cc"
    THEN [Body |-> c, Loc |-> NewLocation(c), Children |-> <<>>]
    ELSE [Body |-> c, Spelling |-> c.spelling, Kind |-> c.kind,
          Loc |-> NewLocation(c), Children |-> <<>>]

\* nodeFromHash[key] = n
MapPut(m, key, n) == [k \in DOMAIN m \cup {key} |-> IF k = key THEN n ELSE m[k]]

EmptyMap == [k \in {} |-> 0]

Init ==
    /\ variant \in {"cc", "part0"}
    /\ pc = "start"
    /\ tuValid \in BOOLEAN
    /\ diagnostics \in SeqsUpTo(DiagMessages, MaxDiags)
    /\ (~tuValid => diagnostics = <<>>)
    /\ stack = <<>>
    /\ delivered = <<>>
    /\ nodes = <<>>
    /\ root = 0
    /\ nodeFromHash = EmptyMap
    /\ err = NoError
    /\ panicMsg = ""
    /\ disposed = <<>>
    /\ outputs = <<>>
    /\ visited = <<>>
    /\ staleDeref = FALSE

\* ParseFile up to the call of cursor.Visit.
ParseFileSetup ==
    /\ pc = "start"
    /\ LET cursor == IF tuValid THEN TUCursor ELSE NullCursor(0)
       IN  /\ err' = RecordErrors(NoError, diagnostics)
           /\ nodes' = <<RootNode(variant, cursor)>>
           /\ root' = 1
           /\ nodeFromHash' = MapPut(EmptyMap, Fingerprint(variant, cursor), 1)
           /\ stack' = <<cursor>>
    /\ pc' = "visiting"
    /\ UNCHANGED <<variant, tuValid, diagnostics, delivered, panicMsg, disposed,
                   outputs, visited, staleDeref>>

\* What the visit closure answers for a cursor.
VisitAnswer(c) == IF c.null THEN "Continue" ELSE "Recurse"

\* The value the visit closure panics with when the parent has no entry.  In
\* cc.go the message is built from parentNode, which is nil on this path, so
\* the panic is the runtime's nil dereference; part_000 reads the parent cursor.
MissingParentPanic(v, parent) ==
    IF v = "cc"
    THEN "runtime error: invalid memory address or nil pointer dereference"
    ELSE "unable to locate node of parent cursor " \o parent.kind \o "("
         \o parent.spelling \o ")"

\* parentNode.Children = append(parentNode.Children, n)
AppendChild(ns, parentNode, n) ==
    [ns EXCEPT ![parentNode].Children = Append(@, n)]

\* The deferred idx.Dispose() and tu.Dispose() of part_000, run last-deferred
\* first when ParseFile returns or panics.  cc.go defers nothing.
DeferredDispose(v) == IF v = "cc" THEN <<>> ELSE <<"tu", "idx">>

\* The engine: after a callback for c under the k-th open cursor, the cursors
\* deeper than k are finished, and c is opened when the answer was Recurse.
EngineDescend(k, c, answer) ==
    SubSeq(stack, 1, k) \o (IF answer = "Recurse" THEN <<c>> ELSE <<>>)

\* One invocation of the visit closure: the engine delivers cursor c, a child
\* of the k-th open cursor, and reports parent as its parent.
Visit(k, c, parent) ==
    LET answer == VisitAnswer(c)
        key == Fingerprint(variant, parent)
        n == Len(nodes) + 1
    IN  IF c.null
        THEN /\ delivered' = Append(delivered,
                     [cursor |-> c, parent |-> parent, answer |-> answer])
             /\ stack' = EngineDescend(k, c, answer)
             /\ UNCHANGED <<pc, nodes, nodeFromHash, panicMsg, disposed>>
        ELSE IF key \notin DOMAIN nodeFromHash
        THEN /\ panicMsg' = MissingParentPanic(variant, parent)
             /\ pc' = "panicked"
             /\ disposed' = disposed \o DeferredDispose(variant)
             /\ delivered' = Append(delivered,
                     [cursor |-> c, parent |-> parent, answer |-> "panic"])
             /\ UNCHANGED <<stack, nodes, nodeFromHash>>
        ELSE /\ nodes' = AppendChild(Append(nodes, ChildNode(variant, c)),
                                     nodeFromHash[key], n)
             /\ nodeFromHash' = MapPut(nodeFromHash, Fingerprint(variant, c), n)
             /\ delivered' = Append(delivered,
                     [cursor |-> c, parent |-> parent, answer |-> answer])
             /\ stack' = EngineDescend(k, c, answer)
             /\ UNCHANGED <<pc, panicMsg, disposed>>

\* The engine calls the visitor with the true parent.
VisitCallback ==
    /\ pc = "visiting"
    /\ tuValid
    /\ Len(delivered) < MaxCursors
    /\ \E k \in 1..Len(stack) :
          \E c \in CursorPool(Len(delivered) + 1) : Visit(k, c, stack[k])
    /\ UNCHANGED <<variant, tuValid, diagnostics, root, err, outputs, visited,
                   staleDeref>>

\* An engine double that breaks the visitor contract: the reported parent was
\* never delivered to the visitor.
VisitCallbackOrphan ==
    /\ pc = "visiting"
    /\ tuValid
    /\ Len(delivered) < MaxCursors
    /\ \E k \in 1..Len(stack) :
          \E c \in CursorPool(Len(delivered) + 1) : Visit(k, c, OrphanCursor)
    /\ UNCHANGED <<variant, tuValid, diagnostics, root, err, outputs, visited,
                   staleDeref>>

\* cursor.Visit returns (the engine has no more cursors) and ParseFile
\* returns root and err; the deferred calls run.
ParseFileReturn ==
    /\ pc = "visiting"
    /\ pc' = "returned"
    /\ disposed' = disposed \o DeferredDispose(variant)
    /\ UNCHANGED <<variant, tuValid, diagnostics, stack, delivered, nodes, root,
                   nodeFromHash, err, panicMsg, outputs, visited, staleDeref>>

\* strings.Repeat
RECURSIVE Repeat(_, _)
Repeat(s, count) == IF count = 0 THEN "" ELSE s \o Repeat(s, count - 1)

\* n.Body.Kind().String(): the kind read through the cursor handle.
BodyKind(n) == n.Body.kind

\* printTree: what it writes, one Printf per element.
RECURSIVE printTree(_, _, _)
RECURSIVE printChildren(_, _, _, _)
\* Mutant: the children are printed at their parent's indentation.
printTreeFlat(ns, n, indentLevel) ==
    <<Repeat("\t", indentLevel) \o BodyKind(ns[n]) \o "\n">>
        \o printChildren(ns, ns[n].Children, 1, indentLevel)

printTree(ns, n, indentLevel) ==
    <<Repeat("\t", indentLevel) \o BodyKind(ns[n]) \o "\n">>
        \o printChildren(ns, ns[n].Children, 1, indentLevel + 1)
printChildren(ns, children, i, indentLevel) ==
    IF i > Len(children) THEN <<>>
    ELSE printTree(ns, children[i], indentLevel)
             \o printChildren(ns, children, i + 1, indentLevel)

\* Walk with an f that records the node it is given.
RECURSIVE WalkNodes(_, _)
RECURSIVE WalkChildren(_, _, _)
\* Mutant: f is invoked after the children were walked.
WalkNodesPostOrder(ns, n) == WalkChildren(ns, ns[n].Children, 1) \o <<n>>

WalkNodes(ns, n) == <<n>> \o WalkChildren(ns, ns[n].Children, 1)
WalkChildren(ns, children, i) ==
    IF i > Len(children) THEN <<>>
    ELSE WalkNodes(ns, children[i]) \o WalkChildren(ns, children, i + 1)

SessionDisposed == \E i \in 1..Len(disposed) : disposed[i] = "tu"

\* PrintTree(root) on the tree ParseFile returned.
PrintTree ==
    /\ pc = "returned"
    /\ Len(outputs) < MaxPrints
    /\ outputs' = Append(outputs, printTree(nodes, root, 0))
    /\ staleDeref' = (staleDeref \/ SessionDisposed)
    /\ UNCHANGED <<variant, pc, tuValid, diagnostics, stack, delivered, nodes,
                   root, nodeFromHash, err, panicMsg, disposed, visited>>

\* Walk(root, f) on the tree ParseFile returned (cc.go only).
Walk ==
    /\ pc = "returned"
    /\ variant = "cc"
    /\ visited = <<>>
    /\ visited' = WalkNodes(nodes, root)
    /\ UNCHANGED <<variant, pc, tuValid, diagnostics, stack, delivered, nodes,
                   root, nodeFromHash, err, panicMsg, disposed, outputs,
                   staleDeref>>

Next ==
    \/ ParseFileSetup
    \/ ParseFileReturn
    \/ VisitCallback
    \/ VisitCallbackOrphan
    \/ PrintTree
    \/ Walk

Spec == Init /\ [][Next]_vars

\* ------------------------------------------------- vocabulary of the claims
NodeIds == 1..Len(nodes)

SeqRange(q) == {q[i] : i \in 1..Len(q)}

\* The callbacks that ran to an answer, and those with a non-null cursor.
Answered == {i \in 1..Len(delivered) : delivered[i].answer # "panic"}
NonNull == {i \in Answered : ~delivered[i].cursor.null}

\* The nodes whose Body is the engine cursor with this identity.
NodesOfCursor(id) == {n \in NodeIds : nodes[n].Body.id = id}

\* The nodes that hold n in their Children.
ParentsOf(n) == {p \in NodeIds : n \in SeqRange(nodes[p].Children)}

RECURSIVE Depth(_)
Depth(n) == IF ParentsOf(n) = {} THEN 0 ELSE 1 + Depth(CHOOSE p \in ParentsOf(n) : TRUE)

\* n and everything below it.
RECURSIVE Subtree(_)
Subtree(n) == {n} \cup UNION {Subtree(c) : c \in SeqRange(nodes[n].Children)}

\* Where node n stands in the sequence q (0 = nowhere).
Pos(q, n) == IF n \in SeqRange(q) THEN CHOOSE i \in 1..Len(q) : q[i] = n ELSE 0

RECURSIVE Tabs(_)
Tabs(d) == IF d = 0 THEN "" ELSE "\t" \o Tabs(d - 1)

\* ----------------------------------------------------------------- claims

\* C1: when ParseFile returns, the error is nil exactly when the engine
\* reported no diagnostic; otherwise it holds one message per diagnostic in
\* report order; the root is non-nil and the tree has a node for every
\* non-null cursor the engine delivered, whatever the diagnostics were.
C1_DiagnosticsAggregate ==
    pc = "returned" =>
        /\ (err.nil <=> diagnostics = <<>>)
        /\ err.Errors = diagnostics
        /\ root \in NodeIds
        /\ Len(nodes) = 1 + Cardinality(NonNull)

C1_Witness ==
    /\ pc = "returned"
    /\ Len(diagnostics) = 2
    /\ diagnostics[1] # diagnostics[2]
    /\ Len(nodes) >= 3

\* C2 (cc.go): every non-null delivered cursor has exactly one node, that node
\* is a child of the node created for its parent cursor and of no other node,
\* Children are in visiting order, the answer is Recurse; a null cursor has
\* no node and is answered Continue.
C2_TreeMirrorsCursorTree ==
    (variant = "cc" /\ pc \in {"visiting", "returned"}) =>
        \A i \in Answered :
            LET c == delivered[i].cursor
                p == delivered[i].parent
            IN  IF c.null
                THEN NodesOfCursor(c.id) = {} /\ delivered[i].answer = "Continue"
                ELSE /\ Cardinality(NodesOfCursor(c.id)) = 1
                     /\ delivered[i].answer = "Recurse"
                     /\ \A n \in NodesOfCursor(c.id) :
                            /\ ParentsOf(n) = NodesOfCursor(p.id)
                            /\ \A q \in ParentsOf(n) :
                                   \A a, b \in 1..Len(nodes[q].Children) :
                                       a < b =>
                                           nodes[nodes[q].Children[a]].Body.id
                                               < nodes[nodes[q].Children[b]].Body.id

\* C3: no cursor handle is used after its session was disposed.
C3_NoStaleHandleUse == tuValid => ~staleDeref

\* C4: a missing parent aborts the pass with the message naming the parent's
\* kind and spelling, and the child is attached nowhere.
C4_MissingParentAborts ==
    pc = "panicked" =>
        LET last == delivered[Len(delivered)]
        IN  /\ panicMsg = "unable to locate node of parent cursor "
                            \o last.parent.kind \o "(" \o last.parent.spelling \o ")"
            /\ NodesOfCursor(last.cursor.id) = {}

\* C5 (part_000): every node, the root included, caches the kind, spelling
\* and location of its cursor, and without diagnostics the root's cached kind
\* is the translation unit's.
C5_CachedFieldsMatchCursor ==
    (variant = "part0" /\ tuValid) =>
        /\ \A n \in NodeIds :
              /\ nodes[n].Kind = nodes[n].Body.kind
              /\ nodes[n].Spelling = nodes[n].Body.spelling
              /\ nodes[n].Loc = [File |-> nodes[n].Body.file,
                                 Line |-> nodes[n].Body.line,
                                 Col |-> nodes[n].Body.col]
        /\ (pc = "returned" /\ diagnostics = <<>>) =>
              nodes[root].Kind = "TranslationUnit"

\* C6: when no translation unit could be constructed, ParseFile registers no
\* root, builds no tree and does not return as if it had parsed.
C6_FailedTUIsHardError ==
    ~tuValid => (root = 0 /\ nodes = <<>> /\ pc # "returned")

\* C7: Walk invokes f once per reachable node, the root first, every node
\* before its children, and the whole subtree of a child before the next
\* child; and Walk leaves the tree as it was.
C7_WalkOrder ==
    visited # <<>> =>
        /\ SeqRange(visited) = Subtree(root)
        /\ Len(visited) = Cardinality(Subtree(root))
        /\ visited[1] = root
        /\ \A n \in Subtree(root) :
              \A i \in 1..Len(nodes[n].Children) :
                  /\ Pos(visited, n) < Pos(visited, nodes[n].Children[i])
                  /\ i > 1 =>
                        \A d \in Subtree(nodes[n].Children[i - 1]) :
                            Pos(visited, d) < Pos(visited, nodes[n].Children[i])

C7_WalkPreOrder == [](C7_WalkOrder) /\ [][visited' # visited => nodes' = nodes]_vars

C7_Witness ==
    /\ Len(visited) = 4
    /\ Len(nodes[root].Children) = 2
    /\ Len(nodes[nodes[root].Children[1]].Children) = 1

\* C8: every PrintTree call writes one line per node in Walk's order, the line
\* of a node at depth d being d tabs and the kind of the node's cursor; so
\* the line count is Walk's node count and two calls write the same.
C8_PrintTreeLines ==
    outputs # <<>> =>
      LET w == WalkNodes(nodes, root)
      IN  \A j \in 1..Len(outputs) :
            /\ Len(outputs[j]) = Len(w)
            /\ \A i \in 1..Len(w) :
                  outputs[j][i] = Tabs(Depth(w[i])) \o nodes[w[i]].Body.kind \o "\n"
            /\ \A k \in 1..Len(outputs) : outputs[k] = outputs[j]

C8_Witness ==
    /\ Len(outputs) = 2
    /\ Len(outputs[2]) = 4
    /\ outputs[2][3] = "\t\tUnexposedExpr\n"
    /\ outputs[2][4] = "\tFunctionDecl\n"

\* C9 (cc.go): every node stays registered under the fingerprint of its own
\* cursor: no registration overwrites another node's entry, and a lookup by
\* a cursor's fingerprint gives the node created for that cursor.
C9_ResolverWriteOnce ==
    variant = "cc" =>
        \A n \in NodeIds :
            LET key == Fingerprint(variant, nodes[n].Body)
            IN  key \in DOMAIN nodeFromHash /\ nodeFromHash[key] = n

\* C10: the session is not released while the visitor runs, and once
\* ParseFile has returned or panicked it has been released exactly once,
\* the translation unit before the index.
C10_SessionReleasedOnce ==
    tuValid =>
        /\ pc = "visiting" => disposed = <<>>
        /\ pc \in {"returned", "panicked"} => disposed = <<"tu", "idx">>
====
